---- MODULE Spec2Model ----
(***************************************************************************)
(* The generic singly-linked List[T] with its iterator All(), the          *)
(* Fibonacci iterator genFib() and the consumers that drive them           *)
(* (src/26_errors.go, the iterators example).                              *)
(*                                                                         *)
(* Pointers are node identities: element number n is heap[n], nil is 0.    *)
(* A Go int is a little-endian sequence of 16-bit limbs, intSize \div 16   *)
(* of them, so that a+b wraps at the width of int exactly as in Go.        *)
(***************************************************************************)
EXTENDS Integers, Sequences, FiniteSets, TLC

VARIABLES
    head,      \* List.head   (0 = nil)
    tail,      \* List.tail   (0 = nil)
    heap,      \* the allocated elements: heap[n] = [next |-> .., val |-> ..]
    pushed,    \* history: the values handed to Push, in call order
    intSize,   \* width of int of the build (32 or 64)
    seq,       \* the iter.Seq the caller holds: "none", "list" or "fib"
    pc,        \* the produce call: "idle" (none), "loop", "yielded" (the consumer
               \* has answered), "returned" (it has just returned to the caller)
    e,         \* All: the loop variable e (a node, 0 = nil)
    a,         \* genFib: accumulator a
    b,         \* genFib: accumulator b
    mode,      \* the consumer driving the call: "range" (a loop body), "collect",
               \* or "pushing" (a loop body that pushes onto the List walked)
    calls,     \* number of times the consumer was invoked in this produce call
    ret,       \* what the last consumer invocation returned
    seen,      \* the values handed to the consumer in this produce call
    visited,   \* All: the nodes whose value was handed to the consumer
    all,       \* the slice built by slices.Collect
    threshold, \* the N of the loop body "if n >= N { break }" (10 in main)
    hist,      \* history: the produce call before this one, and what the List
               \* held when the sequence was obtained
    thr,       \* two goroutines calling Push on the same List
    srv,       \* the enums example: the ServerState handed through transition
    ctr,       \* the closures example: the variable i of each intSeq() closure
    tea,       \* the errors example: the loop of main over makeTea
    chn,       \* the buffered channel example
    gor        \* the goroutines example

vars == <<head, tail, heap, pushed, intSize, seq, pc, e, a, b, mode,
          calls, ret, seen, visited, all, threshold, hist,
          thr, srv, ctr, tea, chn, gor>>

\* the state of the other examples
others == <<thr, srv, ctr, tea, chn, gor>>

listVars == <<head, tail, heap, pushed>>

----------------------------------------------------------------------------
(* Bounds of the exploration *)

MaxPush == 3         \* Push calls explored
MaxCalls == 12       \* consumer invocations explored per produce call
MaxFibCalls == 95    \* consumer invocations explored when genFib runs alone
MaxRerun == 5        \* consumer invocations explored per call when genFib is re-run
MaxGrow == 3         \* Push calls explored inside the consumers of one walk
MaxTransitions == 30 \* applications of transition explored
MaxClosures == 3     \* functions obtained from intSeq
MaxCounter == 4      \* calls explored of one function returned by intSeq
MaxRange == 8        \* the loops explored over makeTea run over range 1 up to range MaxRange
MaxCap == 3          \* the channel capacities explored run from 0 to MaxCap
MaxMsgs == 3         \* values main sends before it receives them
MaxState == 6        \* the ServerState values explored run from -2 to MaxState

(* The values main pushes *)
Vals == {10, 13, 23}

nil == 0

----------------------------------------------------------------------------
(* Go int arithmetic *)

IntSizes == {32, 64}
LimbBits == 4 * 4
LimbBase == 2 ^ LimbBits

RECURSIVE AddLimbs(_, _, _, _)
AddLimbs(x, y, i, carry) ==
    IF i > Len(x) THEN <<>>
    ELSE LET s == x[i] + y[i] + carry
         IN  <<s % LimbBase>> \o AddLimbs(x, y, i + 1, s \div LimbBase)

\* a + b on int: the carry out of the top limb is dropped
IntAdd(x, y) == AddLimbs(x, y, 1, 0)

\* the int constant n (0 <= n < LimbBase) at width size
IntLit(n, size) == [i \in 1 .. (size \div LimbBits) |-> IF i = 1 THEN n ELSE 0]

\* sign of an int (two's complement)
IntNeg(x) == x[Len(x)] >= LimbBase \div 2

\* x < y on int: limbs compared from the top one down
RECURSIVE LimbsLess(_, _, _)
LimbsLess(x, y, i) ==
    IF i = 0 THEN FALSE
    ELSE IF x[i] # y[i] THEN x[i] < y[i]
    ELSE LimbsLess(x, y, i - 1)

IntLess(x, y) ==
    IF IntNeg(x) # IntNeg(y) THEN IntNeg(x) ELSE LimbsLess(x, y, Len(x))

----------------------------------------------------------------------------
(* List[T] *)

\* &element[T]{val: v}
NewElement(v) == [next |-> nil, val |-> v]

\* Push without lst.tail = lst.tail.next
PushNoTailAdvance(v) ==
    /\ pc \in {"idle", "returned"}
    /\ LET new == Len(heap) + 1
       IN  IF tail = nil
           THEN /\ heap' = Append(heap, NewElement(v))
                /\ head' = new
                /\ tail' = new
           ELSE /\ heap' = Append([heap EXCEPT ![tail].next = new], NewElement(v))
                /\ tail' = tail
                /\ head' = head
    /\ pushed' = Append(pushed, v)
    /\ pc' = "idle"
    /\ UNCHANGED <<intSize, seq, e, a, b, mode, calls, ret, seen, visited, all>>

\* Push whose new element links back to head
PushCircular(v) ==
    /\ pc \in {"idle", "returned"}
    /\ LET new == Len(heap) + 1
       IN  IF tail = nil
           THEN /\ heap' = Append(heap, NewElement(v))
                /\ head' = new
                /\ tail' = new
           ELSE /\ heap' = Append([heap EXCEPT ![tail].next = new],
                                  [next |-> head, val |-> v])
                /\ tail' = new
                /\ head' = head
    /\ pushed' = Append(pushed, v)
    /\ pc' = "idle"
    /\ UNCHANGED <<intSize, seq, e, a, b, mode, calls, ret, seen, visited, all>>

\* Push that links the new element in front of head
PushFront(v) ==
    /\ pc \in {"idle", "returned"}
    /\ LET new == Len(heap) + 1
       IN  IF tail = nil
           THEN /\ heap' = Append(heap, NewElement(v))
                /\ head' = new
                /\ tail' = new
           ELSE /\ heap' = Append(heap, [next |-> head, val |-> v])
                /\ tail' = tail
                /\ head' = new
    /\ pushed' = Append(pushed, v)
    /\ pc' = "idle"
    /\ UNCHANGED <<intSize, seq, e, a, b, mode, calls, ret, seen, visited, all>>

Push(v) ==
    /\ pc \in {"idle", "returned"}
    /\ LET new == Len(heap) + 1
       IN  IF tail = nil
           THEN /\ heap' = Append(heap, NewElement(v))
                /\ head' = new
                /\ tail' = new
           ELSE /\ heap' = Append([heap EXCEPT ![tail].next = new], NewElement(v))
                /\ tail' = new
                /\ head' = head
    /\ pushed' = Append(pushed, v)
    /\ pc' = "idle"
    /\ UNCHANGED <<intSize, seq, e, a, b, mode, calls, ret, seen, visited, all>>

\* AllElements(): the values met by for e := lst.head; e != nil; e = e.next
\* (fuel stops the unrolling on a chain that does not end)
RECURSIVE ChainFrom(_, _)
ChainFrom(n, fuel) ==
    IF n = nil \/ fuel = 0 THEN <<>>
    ELSE <<n>> \o ChainFrom(heap[n].next, fuel - 1)

\* the nodes in link order from head
LinkOrder == ChainFrom(head, Len(heap) + 1)

\* the loop run while e.next != nil: the last element is left out
AllElementsDropsLast == [i \in 1 .. Len(LinkOrder) - 1 |-> heap[LinkOrder[i]].val]

AllElements == [i \in 1 .. Len(LinkOrder) |-> heap[LinkOrder[i]].val]

\* the nodes reachable from the nodes of S by next links (S included)
RECURSIVE ReachSet(_)
ReachSet(S) ==
    LET T == S \cup ({heap[n].next : n \in S} \ {nil})
    IN  IF T = S THEN S ELSE ReachSet(T)

Reachable(n) == IF n = nil THEN {} ELSE ReachSet({n})


\* lst.All(): returns the closure; nothing of the list is read yet
All ==
    /\ pc \in {"idle", "returned"}
    /\ seq' = "list"
    /\ pc' = "idle"
    /\ UNCHANGED <<listVars, intSize, e, a, b, mode, calls, ret, seen, visited, all>>

\* genFib(): returns the closure
genFib ==
    /\ pc \in {"idle", "returned"}
    /\ seq' = "fib"
    /\ pc' = "idle"
    /\ UNCHANGED <<listVars, intSize, e, a, b, mode, calls, ret, seen, visited, all>>

----------------------------------------------------------------------------
(* One produce call: the closure returned by All() *)

\* the loop started at lst.tail
AllProduceFromTail(m) ==
    /\ pc \in {"idle", "returned"}
    /\ seq = "list"
    /\ pc' = "loop"
    /\ e' = tail
    /\ mode' = m
    /\ calls' = 0
    /\ ret' = TRUE
    /\ seen' = <<>>
    /\ visited' = <<>>
    /\ all' = IF m = "collect" THEN <<>> ELSE all
    /\ UNCHANGED <<listVars, intSize, seq, a, b>>

\* a walk that goes on from where the walk before it stopped
AllProduceResumes(m) ==
    /\ pc \in {"idle", "returned"}
    /\ seq = "list"
    /\ pc' = "loop"
    /\ e' = IF e # nil THEN e ELSE head
    /\ mode' = m
    /\ calls' = 0
    /\ ret' = TRUE
    /\ seen' = <<>>
    /\ visited' = <<>>
    /\ all' = IF m = "collect" THEN <<>> ELSE all
    /\ UNCHANGED <<listVars, intSize, seq, a, b>>

\* a closure that holds the value lst.head had when All() was called
AllProduceFromCapturedHead(m) ==
    /\ pc \in {"idle", "returned"}
    /\ seq = "list"
    /\ pc' = "loop"
    /\ e' = IF hist.atAll = 0 THEN nil ELSE head
    /\ mode' = m
    /\ calls' = 0
    /\ ret' = TRUE
    /\ seen' = <<>>
    /\ visited' = <<>>
    /\ all' = IF m = "collect" THEN <<>> ELSE all
    /\ UNCHANGED <<listVars, intSize, seq, a, b>>

\* seq(yield) is called: for e := lst.head
AllProduce(m) ==
    /\ pc \in {"idle", "returned"}
    /\ seq = "list"
    /\ pc' = "loop"
    /\ e' = head
    /\ mode' = m
    /\ calls' = 0
    /\ ret' = TRUE
    /\ seen' = <<>>
    /\ visited' = <<>>
    /\ all' = IF m = "collect" THEN <<>> ELSE all
    /\ UNCHANGED <<listVars, intSize, seq, a, b>>

\* the loop body run before the test e != nil
AllYieldBeforeTest(r) ==
    /\ seq = "list"
    /\ pc = "loop"
    /\ mode = "collect" => r = TRUE
    /\ calls' = calls + 1
    /\ ret' = r
    /\ seen' = Append(seen, IF e = nil THEN 0 ELSE heap[e].val)
    /\ visited' = Append(visited, e)
    /\ all' = IF mode = "collect"
              THEN Append(all, IF e = nil THEN 0 ELSE heap[e].val) ELSE all
    /\ pc' = "yielded"
    /\ UNCHANGED <<listVars, intSize, seq, e, a, b, mode>>

\* e != nil; yield(e.val) is called and returns r
AllYield(r) ==
    /\ seq = "list"
    /\ pc = "loop"
    /\ e # nil
    /\ mode = "collect" => r = TRUE
    /\ calls' = calls + 1
    /\ ret' = r
    /\ seen' = Append(seen, heap[e].val)
    /\ visited' = Append(visited, e)
    /\ all' = IF mode = "collect" THEN Append(all, heap[e].val) ELSE all
    /\ pc' = "yielded"
    /\ UNCHANGED <<listVars, intSize, seq, e, a, b, mode>>

\* e != nil; yield(e.val) is called, its body calls lst.Push(v) and returns true
AllYieldPushing(v) ==
    /\ seq = "list"
    /\ pc = "loop"
    /\ e # nil
    /\ mode = "pushing"
    /\ calls' = calls + 1
    /\ ret' = TRUE
    /\ seen' = Append(seen, heap[e].val)
    /\ visited' = Append(visited, e)
    /\ LET new == Len(heap) + 1
       IN  IF tail = nil
           THEN /\ heap' = Append(heap, NewElement(v))
                /\ head' = new
                /\ tail' = new
           ELSE /\ heap' = Append([heap EXCEPT ![tail].next = new], NewElement(v))
                /\ tail' = new
                /\ head' = head
    /\ pushed' = Append(pushed, v)
    /\ pc' = "yielded"
    /\ UNCHANGED <<intSize, seq, e, a, b, mode, all>>

\* the loop without the test of yield's result
AllStepIgnoresResult ==
    /\ seq = "list"
    /\ pc = "yielded"
    /\ e' = heap[e].next
    /\ pc' = "loop"
    /\ UNCHANGED <<listVars, intSize, seq, a, b, mode, calls, ret, seen, visited, all>>

\* a walk that advances lst.head itself instead of the loop variable alone
AllStepPopsHead ==
    /\ seq = "list"
    /\ pc = "yielded"
    /\ IF ret
       THEN /\ e' = heap[e].next
            /\ head' = heap[e].next
            /\ pc' = "loop"
       ELSE /\ e' = e
            /\ head' = head
            /\ pc' = "returned"
    /\ UNCHANGED <<tail, heap, pushed, intSize, seq, a, b, mode, calls, ret, seen, visited, all>>

\* e.next read before yield is called: a node the consumer links behind e
\* is not seen
AllStepNextReadBeforeYield ==
    /\ seq = "list"
    /\ pc = "yielded"
    /\ IF ret
       THEN /\ e' = IF mode = "pushing" /\ heap[e].next = Len(heap)
                    THEN nil ELSE heap[e].next
            /\ pc' = "loop"
       ELSE /\ e' = e
            /\ pc' = "returned"
    /\ UNCHANGED <<listVars, intSize, seq, a, b, mode, calls, ret, seen, visited, all>>

\* if !yield(e.val) { return }; otherwise e = e.next
AllStep ==
    /\ seq = "list"
    /\ pc = "yielded"
    /\ IF ret
       THEN /\ e' = heap[e].next
            /\ pc' = "loop"
       ELSE /\ e' = e
            /\ pc' = "returned"
    /\ UNCHANGED <<listVars, intSize, seq, a, b, mode, calls, ret, seen, visited, all>>

\* e == nil: the loop ends and the closure returns
AllExhaust ==
    /\ seq = "list"
    /\ pc = "loop"
    /\ e = nil
    /\ pc' = "returned"
    /\ UNCHANGED <<listVars, intSize, seq, e, a, b, mode, calls, ret, seen, visited, all>>

----------------------------------------------------------------------------
(* One produce call: the closure returned by genFib() *)

\* accumulators that live outside the closure and are set up once
FibProduceResumes ==
    /\ pc \in {"idle", "returned"}
    /\ seq = "fib"
    /\ pc' = "loop"
    /\ a' = IF a = IntLit(0, intSize) THEN IntLit(1, intSize) ELSE a
    /\ b' = IF b = IntLit(0, intSize) THEN IntLit(1, intSize) ELSE b
    /\ mode' = "range"
    /\ calls' = 0
    /\ ret' = TRUE
    /\ seen' = <<>>
    /\ visited' = <<>>
    /\ UNCHANGED <<listVars, intSize, seq, e, all>>

\* seq(yield) is called: a, b := 1, 1
FibProduce ==
    /\ pc \in {"idle", "returned"}
    /\ seq = "fib"
    /\ pc' = "loop"
    /\ a' = IntLit(1, intSize)
    /\ b' = IntLit(1, intSize)
    /\ mode' = "range"
    /\ calls' = 0
    /\ ret' = TRUE
    /\ seen' = <<>>
    /\ visited' = <<>>
    /\ UNCHANGED <<listVars, intSize, seq, e, all>>

\* yield(a) is called and returns r
FibYield(r) ==
    /\ seq = "fib"
    /\ pc = "loop"
    /\ calls' = calls + 1
    /\ ret' = r
    /\ seen' = Append(seen, a)
    /\ pc' = "yielded"
    /\ UNCHANGED <<listVars, intSize, seq, e, a, b, mode, visited, all>>

\* a = b; b = a + b in sequence instead of the parallel assignment
FibStepSequential ==
    /\ seq = "fib"
    /\ pc = "yielded"
    /\ IF ret
       THEN /\ a' = b
            /\ b' = IntAdd(b, b)
            /\ pc' = "loop"
       ELSE /\ a' = a
            /\ b' = b
            /\ pc' = "returned"
    /\ UNCHANGED <<listVars, intSize, seq, e, mode, calls, ret, seen, visited, all>>

\* a generator that gives up once a+b has left the range of int
FibStepStopsOnOverflow ==
    /\ seq = "fib"
    /\ pc = "yielded"
    /\ IF ret /\ ~IntNeg(IntAdd(a, b))
       THEN /\ a' = b
            /\ b' = IntAdd(a, b)
            /\ pc' = "loop"
       ELSE /\ a' = a
            /\ b' = b
            /\ pc' = "returned"
    /\ UNCHANGED <<listVars, intSize, seq, e, mode, calls, ret, seen, visited, all>>

\* if !yield(a) { return }; otherwise a, b = b, a+b
FibStep ==
    /\ seq = "fib"
    /\ pc = "yielded"
    /\ IF ret
       THEN /\ a' = b
            /\ b' = IntAdd(a, b)
            /\ pc' = "loop"
       ELSE /\ a' = a
            /\ b' = b
            /\ pc' = "returned"
    /\ UNCHANGED <<listVars, intSize, seq, e, mode, calls, ret, seen, visited, all>>

----------------------------------------------------------------------------
(* Specifications *)

Start ==
    /\ head = nil
    /\ tail = nil
    /\ heap = <<>>
    /\ pushed = <<>>
    /\ intSize \in IntSizes
    /\ seq = "none"
    /\ pc = "idle"
    /\ e = nil
    /\ a = IntLit(0, intSize)
    /\ b = IntLit(0, intSize)
    /\ mode = "range"
    /\ calls = 0
    /\ ret = TRUE
    /\ seen = <<>>
    /\ visited = <<>>
    /\ all = <<>>

\* no produce call yet
NoRun == [kind |-> "none", seen |-> <<>>, ret |-> TRUE, n |-> 0]

NoHist == [last |-> NoRun, prev |-> NoRun, atAll |-> 0, runs |-> 0]

\* the other examples are not running
OthersIdle ==
    /\ thr = <<>>
    /\ srv = <<>>
    /\ ctr = <<>>
    /\ tea = <<>>
    /\ chn = <<>>
    /\ gor = <<>>

Init ==
    /\ Start
    /\ threshold = IntLit(10, intSize)
    /\ hist = NoHist
    /\ OthersIdle

\* the history is not kept
Keep == UNCHANGED <<threshold, hist, others>>

Next ==
    \/ \E v \in Vals : Len(pushed) < MaxPush /\ Push(v) /\ Keep
    \/ All /\ Keep
    \/ genFib /\ Keep
    \/ \E m \in {"range", "collect"} : AllProduce(m) /\ Keep
    \/ \E r \in BOOLEAN : AllYield(r) /\ Keep
    \/ AllStep /\ Keep
    \/ AllExhaust /\ Keep
    \/ FibProduce /\ Keep
    \/ \E r \in BOOLEAN : calls < MaxCalls /\ FibYield(r) /\ Keep
    \/ FibStep /\ Keep

Spec == Init /\ [][Next]_vars

\* genFib driven alone, far enough for a+b to leave the range of int
NextFib ==
    \/ genFib /\ Keep
    \/ FibProduce /\ Keep
    \/ \E r \in BOOLEAN : calls < MaxFibCalls /\ FibYield(r) /\ Keep
    \/ FibStep /\ Keep

SpecFib == Init /\ [][NextFib]_vars

\* The code is synchronous: a produce call that can take its next step takes it
FairSpecFib ==
    /\ SpecFib
    /\ WF_vars(\E r \in BOOLEAN : calls < MaxFibCalls /\ FibYield(r) /\ Keep)
    /\ WF_vars(FibStep /\ Keep)

----------------------------------------------------------------------------
(* The same operations with the history kept: hist.last is the produce call *)
(* that returned last, hist.prev the one before the current call, hist.n    *)
(* the number of Push calls made before it returned, hist.atAll the number  *)
(* of Push calls made before All(), hist.runs the number of produce calls   *)
(* on the sequence value held (2 for two or more).                          *)

NoteObtained ==
    /\ hist' = [hist EXCEPT !.atAll = Len(pushed), !.runs = 0]
    /\ UNCHANGED <<threshold, others>>

NoteProduce ==
    /\ hist' = [hist EXCEPT !.prev = hist.last,
                            !.runs = IF @ < 2 THEN @ + 1 ELSE 2]
    /\ UNCHANGED <<threshold, others>>

NoteStep ==
    /\ hist' = IF pc' = "returned"
               THEN [hist EXCEPT !.last = [kind |-> seq, seen |-> seen,
                                           ret |-> ret, n |-> Len(pushed)]]
               ELSE hist
    /\ UNCHANGED <<threshold, others>>

\* the List pushed to and walked, again and again
NextWalks ==
    \/ \E v \in Vals : Len(pushed) < MaxPush /\ Push(v) /\ Keep
    \/ All /\ NoteObtained
    \/ \E m \in {"range", "collect"} : AllProduce(m) /\ NoteProduce
    \/ \E r \in BOOLEAN : AllYield(r) /\ Keep
    \/ AllStep /\ NoteStep
    \/ AllExhaust /\ NoteStep

SpecWalks == Init /\ [][NextWalks]_vars

\* genFib driven again and again
NextRuns ==
    \/ genFib /\ NoteObtained
    \/ FibProduce /\ NoteProduce
    \/ \E r \in BOOLEAN : calls < MaxRerun /\ FibYield(r) /\ Keep
    \/ FibStep /\ NoteStep

SpecRuns == Init /\ [][NextRuns]_vars

----------------------------------------------------------------------------
(* A walk whose consumer pushes onto the List it walks *)

NextPushing ==
    \/ \E v \in Vals : Len(pushed) < MaxPush /\ Push(v) /\ Keep
    \/ All /\ Keep
    \/ AllProduce("pushing") /\ Keep
    \/ \E v \in Vals : Len(pushed) < MaxPush + MaxGrow /\ AllYieldPushing(v) /\ Keep
    \/ AllStep /\ Keep
    \/ AllExhaust /\ Keep

SpecPushing == Init /\ [][NextPushing]_vars

----------------------------------------------------------------------------
(* The loop of main: for n := range genFib() { if n >= N { break } ... }   *)

\* the loop body with n > N for n >= N
LoopBodyStrict == FibYield(~IntLess(threshold, a))

\* the loop body is the consumer: it answers false when n >= N
LoopBody == FibYield(IntLess(a, threshold))

\* what genFib's loop computes: t extended by the sum of its last two values
Extend(t) == Append(t, IntAdd(t[Len(t) - 1], t[Len(t)]))

\* Extend applied n times (t is evaluated before the next half is started)
RECURSIVE Iterate(_, _)
Iterate(n, t) ==
    IF n = 0 \/ Len(t) < 2 THEN t
    ELSE IF n = 1 THEN Extend(t)
    ELSE Iterate(n - n \div 2, Iterate(n \div 2, t))

\* the first MaxFibCalls values of a, at width size
FibInts(size) == Iterate(MaxFibCalls - 2, <<IntLit(1, size), IntLit(1, size)>>)

\* the index of the last value before a+b leaves the range of int
LastFib(size) ==
    LET t == FibInts(size)
    IN  CHOOSE k \in 1 .. Len(t) :
            /\ \A j \in 1 .. k : ~IntNeg(t[j])
            /\ k = Len(t) \/ IntNeg(t[k + 1])

\* the thresholds explored: N = 10, every Fibonacci number in int, and the
\* number after each (the two ends of every range of N with the same stop)
Thresholds(size) ==
    LET t == FibInts(size)
        K == LastFib(size)
    IN  {IntLit(10, size)}
            \cup {t[k] : k \in 1 .. K}
            \cup {IntAdd(t[k], IntLit(1, size)) : k \in 1 .. K - 1}

InitDemo ==
    /\ Start
    /\ threshold \in Thresholds(intSize)
    /\ hist = NoHist
    /\ OthersIdle

NextDemo ==
    \/ genFib /\ Keep
    \/ FibProduce /\ Keep
    \/ calls < MaxFibCalls /\ LoopBody /\ Keep
    \/ FibStep /\ Keep

SpecDemo == InitDemo /\ [][NextDemo]_vars

FairSpecDemo ==
    /\ SpecDemo
    /\ WF_vars(calls < MaxFibCalls /\ LoopBody /\ Keep)
    /\ WF_vars(FibStep /\ Keep)

----------------------------------------------------------------------------
(* Two goroutines that call Push on the same List, one read or write of    *)
(* head, tail or next at a time.  thr.t[i] is goroutine i: its position at, *)
(* its argument v, the element new it allocated and the pointers p, q, r   *)
(* it has read; thr.overlap records that both were inside Push at once.    *)

Racers == {1, 2}

racerVars == <<intSize, seq, pc, e, a, b, mode, calls, ret, seen, visited, all,
               threshold, hist, srv, ctr, tea, chn, gor>>

Inside(at) == at \notin {"call", "done"}

\* goroutine i moves to position at with the fields of its record set as in f
Move(i, at, f) ==
    LET t == [thr.t EXCEPT ![i] = [f EXCEPT !.at = at]]
    IN  thr' = [t |-> t,
                overlap |-> thr.overlap \/ \A j \in Racers : Inside(t[j].at)]

\* go lst.Push(v1); go lst.Push(v2)
StartRace(v1, v2) ==
    /\ thr = <<>>
    /\ pc = "idle"
    /\ thr' = [t |-> [i \in Racers |->
                        [at |-> "call", v |-> IF i = 1 THEN v1 ELSE v2,
                         new |-> nil, p |-> nil, q |-> nil, r |-> nil]],
               overlap |-> FALSE]
    /\ UNCHANGED <<listVars, racerVars>>

\* if lst.tail == nil
RaceTest(i) ==
    /\ thr # <<>>
    /\ thr.t[i].at = "call"
    /\ Move(i, IF tail = nil THEN "setHead" ELSE "readTail", thr.t[i])
    /\ UNCHANGED <<listVars, racerVars>>

\* lst.head = &element[T]{val: v}
RaceSetHead(i) ==
    /\ thr # <<>>
    /\ thr.t[i].at = "setHead"
    /\ heap' = Append(heap, NewElement(thr.t[i].v))
    /\ head' = Len(heap) + 1
    /\ pushed' = Append(pushed, thr.t[i].v)
    /\ Move(i, "readHead", [thr.t[i] EXCEPT !.new = Len(heap) + 1])
    /\ UNCHANGED <<tail, racerVars>>

\* lst.tail = lst.head: lst.head is read
RaceReadHead(i) ==
    /\ thr # <<>>
    /\ thr.t[i].at = "readHead"
    /\ Move(i, "setTail", [thr.t[i] EXCEPT !.r = head])
    /\ UNCHANGED <<listVars, racerVars>>

\* lst.tail.next = &element[T]{val: v}: lst.tail is read
RaceReadTail(i) ==
    /\ thr # <<>>
    /\ thr.t[i].at = "readTail"
    /\ Move(i, "setNext", [thr.t[i] EXCEPT !.p = tail])
    /\ UNCHANGED <<listVars, racerVars>>

\* lst.tail.next = &element[T]{val: v}: next is written
RaceSetNext(i) ==
    /\ thr # <<>>
    /\ thr.t[i].at = "setNext"
    /\ heap' = Append([heap EXCEPT ![thr.t[i].p].next = Len(heap) + 1],
                      NewElement(thr.t[i].v))
    /\ pushed' = Append(pushed, thr.t[i].v)
    /\ Move(i, "readTailAgain", [thr.t[i] EXCEPT !.new = Len(heap) + 1])
    /\ UNCHANGED <<head, tail, racerVars>>

\* lst.tail = lst.tail.next: lst.tail is read
RaceReadTailAgain(i) ==
    /\ thr # <<>>
    /\ thr.t[i].at = "readTailAgain"
    /\ Move(i, "readNext", [thr.t[i] EXCEPT !.q = tail])
    /\ UNCHANGED <<listVars, racerVars>>

\* lst.tail = lst.tail.next: next is read
RaceReadNext(i) ==
    /\ thr # <<>>
    /\ thr.t[i].at = "readNext"
    /\ Move(i, "setTail", [thr.t[i] EXCEPT !.r = heap[thr.t[i].q].next])
    /\ UNCHANGED <<listVars, racerVars>>

\* lst.tail is written with the pointer read before it
RaceSetTailStale(i) ==
    /\ thr # <<>>
    /\ thr.t[i].at = "setTail"
    /\ tail' = IF thr.t[i].q = nil THEN thr.t[i].r ELSE thr.t[i].q
    /\ Move(i, "done", thr.t[i])
    /\ UNCHANGED <<head, heap, pushed, racerVars>>

\* lst.tail is written (either branch)
RaceSetTail(i) ==
    /\ thr # <<>>
    /\ thr.t[i].at = "setTail"
    /\ tail' = thr.t[i].r
    /\ Move(i, "done", thr.t[i])
    /\ UNCHANGED <<head, heap, pushed, racerVars>>

NextRace ==
    \/ \E v \in Vals : thr = <<>> /\ Len(pushed) < MaxPush /\ Push(v) /\ Keep
    \/ \E v1, v2 \in Vals : StartRace(v1, v2)
    \/ \E i \in Racers : RaceTest(i)
    \/ \E i \in Racers : RaceSetHead(i)
    \/ \E i \in Racers : RaceReadHead(i)
    \/ \E i \in Racers : RaceReadTail(i)
    \/ \E i \in Racers : RaceSetNext(i)
    \/ \E i \in Racers : RaceReadTailAgain(i)
    \/ \E i \in Racers : RaceReadNext(i)
    \/ \E i \in Racers : RaceSetTail(i)

SpecRace == Init /\ [][NextRace]_vars

----------------------------------------------------------------------------
(* The enums example: type ServerState int and transition.  srv.s is the    *)
(* value held, srv.trace the values held so far, srv.panicked whether       *)
(* transition has panicked.                                                *)

StateIdle == 0
StateConnected == 1
StateError == 2
StateRetrying == 3

listIdle == <<head, tail, heap, pushed, intSize, seq, pc, e, a, b, mode,
              calls, ret, seen, visited, all, threshold, hist>>

\* transition with StateError leading to StateRetrying
TransitionErrorRetries(s) ==
    IF s = StateIdle THEN [panic |-> FALSE, s |-> StateConnected]
    ELSE IF s \in {StateConnected, StateRetrying} THEN [panic |-> FALSE, s |-> StateIdle]
    ELSE IF s = StateError THEN [panic |-> FALSE, s |-> StateRetrying]
    ELSE [panic |-> TRUE, s |-> s]

\* transition with StateConnected leading to StateRetrying
TransitionConnectedRetries(s) ==
    IF s = StateIdle THEN [panic |-> FALSE, s |-> StateConnected]
    ELSE IF s = StateConnected THEN [panic |-> FALSE, s |-> StateRetrying]
    ELSE IF s = StateRetrying THEN [panic |-> FALSE, s |-> StateIdle]
    ELSE IF s = StateError THEN [panic |-> FALSE, s |-> StateError]
    ELSE [panic |-> TRUE, s |-> s]

\* transition without StateRetrying in its second case
TransitionNoRetrying(s) ==
    IF s = StateIdle THEN [panic |-> FALSE, s |-> StateConnected]
    ELSE IF s = StateConnected THEN [panic |-> FALSE, s |-> StateIdle]
    ELSE IF s = StateError THEN [panic |-> FALSE, s |-> StateError]
    ELSE [panic |-> TRUE, s |-> s]

\* the switch of transition; default: panic
Transition(s) ==
    IF s = StateIdle THEN [panic |-> FALSE, s |-> StateConnected]
    ELSE IF s \in {StateConnected, StateRetrying} THEN [panic |-> FALSE, s |-> StateIdle]
    ELSE IF s = StateError THEN [panic |-> FALSE, s |-> StateError]
    ELSE [panic |-> TRUE, s |-> s]

\* a ServerState to start from (any int converts to ServerState)
EnumStart(s0) ==
    /\ srv = <<>>
    /\ srv' = [s |-> s0, trace |-> <<s0>>, panicked |-> FALSE]
    /\ UNCHANGED <<listIdle, thr, ctr, tea, chn, gor>>

\* ns := transition(s)
EnumTransition ==
    /\ srv # <<>>
    /\ ~srv.panicked
    /\ LET t == Transition(srv.s)
       IN  srv' = IF t.panic
                  THEN [srv EXCEPT !.panicked = TRUE]
                  ELSE [srv EXCEPT !.s = t.s, !.trace = Append(@, t.s)]
    /\ UNCHANGED <<listIdle, thr, ctr, tea, chn, gor>>

NextEnum ==
    \/ \E s0 \in -2 .. MaxState : EnumStart(s0)
    \/ srv # <<>> /\ Len(srv.trace) <= MaxTransitions /\ EnumTransition

SpecEnum == Init /\ [][NextEnum]_vars

----------------------------------------------------------------------------
(* The closures example: intSeq.  ctr is the sequence of closures obtained  *)
(* so far; ctr[c].i is the variable i the c-th closure captured and         *)
(* ctr[c].out the values its calls returned, in call order.                 *)

\* nextInt := intSeq()    (i := 0; return func() int {...})
IntSeq ==
    /\ ctr' = Append(ctr, [i |-> IntLit(0, intSize), out |-> <<>>])
    /\ UNCHANGED <<listIdle, thr, srv, tea, chn, gor>>

\* the returned function with one i shared by every closure
CallClosureShared(c) ==
    /\ c \in 1 .. Len(ctr)
    /\ LET i == IntAdd(ctr[1].i, IntLit(1, intSize))
           t == [ctr EXCEPT ![1].i = i]
       IN  ctr' = [t EXCEPT ![c].out = Append(@, i)]
    /\ UNCHANGED <<listIdle, thr, srv, tea, chn, gor>>

\* one call of the c-th returned function:  i++; return i
CallClosure(c) ==
    /\ c \in 1 .. Len(ctr)
    /\ LET i == IntAdd(ctr[c].i, IntLit(1, intSize))
       IN  ctr' = [ctr EXCEPT ![c].i = i, ![c].out = Append(@, i)]
    /\ UNCHANGED <<listIdle, thr, srv, tea, chn, gor>>

NextClosures ==
    \/ Len(ctr) < MaxClosures /\ IntSeq
    \/ \E c \in 1 .. Len(ctr) : Len(ctr[c].out) < MaxCounter /\ CallClosure(c)

SpecClosures == Init /\ [][NextClosures]_vars

----------------------------------------------------------------------------
(* The errors example: makeTea and the loop of main over it.  An error is   *)
(* the chain of the error values it wraps, outermost first; the nil error   *)
(* is the empty chain.  tea.errs is what makeTea returned, call by call,    *)
(* and tea.out what the loop printed.                                       *)

ErrOutOfTea == <<"no more tea available">>
ErrPower == <<"can't boil water">>

\* fmt.Errorf(msg + ": %w", err)
Wrap(msg, err) == <<msg>> \o err

\* errors.Unwrap
Unwrap(err) == Tail(err)

\* errors.Is: err or an error in its chain is target
RECURSIVE ErrorsIs(_, _)
ErrorsIs(err, target) ==
    IF err = <<>> THEN FALSE
    ELSE IF err = target THEN TRUE
    ELSE ErrorsIs(Unwrap(err), target)

\* makeTea formatting ErrPower without wrapping it
makeTeaNoWrap(arg) ==
    IF arg = 2 THEN ErrOutOfTea
    ELSE IF arg = 4 THEN <<"making tea: can't boil water">>
    ELSE <<>>

makeTea(arg) ==
    IF arg = 2 THEN ErrOutOfTea
    ELSE IF arg = 4 THEN Wrap("making tea", ErrPower)
    ELSE <<>>

\* the body of main's loop after the call: the line it prints
Report(err) ==
    IF err # <<>>
    THEN IF ErrorsIs(err, ErrOutOfTea) THEN "buy new tea"
         ELSE IF ErrorsIs(err, ErrPower) THEN "dark"
         ELSE "unknown error"
    ELSE "tea ready"

\* for i := range n
TeaStart(n) ==
    /\ tea = <<>>
    /\ tea' = [n |-> n, i |-> 0, at |-> "loop", err |-> <<>>, errs |-> <<>>, out |-> <<>>]
    /\ UNCHANGED <<listIdle, thr, srv, ctr, chn, gor>>

\* err := makeTea(i)
TeaCall ==
    /\ tea # <<>>
    /\ tea.at = "loop"
    /\ tea.i < tea.n
    /\ LET err == makeTea(tea.i)
       IN  tea' = [tea EXCEPT !.err = err, !.errs = Append(@, err), !.at = "report"]
    /\ UNCHANGED <<listIdle, thr, srv, ctr, chn, gor>>

\* the prints of the loop body, then the next i
TeaReport ==
    /\ tea # <<>>
    /\ tea.at = "report"
    /\ tea' = [tea EXCEPT !.out = Append(@, Report(tea.err)), !.i = @ + 1, !.at = "loop"]
    /\ UNCHANGED <<listIdle, thr, srv, ctr, chn, gor>>

\* the loop ends
TeaDone ==
    /\ tea # <<>>
    /\ tea.at = "loop"
    /\ tea.i = tea.n
    /\ tea' = [tea EXCEPT !.at = "done"]
    /\ UNCHANGED <<listIdle, thr, srv, ctr, chn, gor>>

NextTea ==
    \/ \E n \in 1 .. MaxRange : TeaStart(n)
    \/ TeaCall
    \/ TeaReport
    \/ TeaDone

SpecTea == Init /\ [][NextTea]_vars

----------------------------------------------------------------------------
(* The buffered channel example.  main is the only goroutine: it sends the  *)
(* values chn.msgs one after the other, then receives as many.  chn.buf is  *)
(* the channel's buffer, chn.k the number of sends and receives done,       *)
(* chn.got the values received.  A send on a full channel, or a receive on  *)
(* an empty one, blocks; with no other goroutine the runtime then stops the *)
(* program: all goroutines are asleep - deadlock.                           *)

Msgs == {"buffered", "channel"}

SeqsUpTo(n) == UNION {[1 .. m -> Msgs] : m \in 0 .. n}

\* messages := make(chan string, c)
ChanMake(c, msgs) ==
    /\ chn = <<>>
    /\ chn' = [cap |-> c, msgs |-> msgs, buf |-> <<>>, k |-> 0, got |-> <<>>,
               at |-> IF msgs = <<>> THEN "done" ELSE "send"]
    /\ UNCHANGED <<listIdle, thr, srv, ctr, tea, gor>>

\* messages <- msgs[k + 1]
ChanSend ==
    /\ chn # <<>>
    /\ chn.at = "send"
    /\ chn' = IF Len(chn.buf) < chn.cap
              THEN [chn EXCEPT !.buf = Append(@, chn.msgs[chn.k + 1]),
                               !.k = @ + 1,
                               !.at = IF chn.k + 1 = Len(chn.msgs) THEN "recv" ELSE "send"]
              ELSE [chn EXCEPT !.at = "deadlock"]
    /\ UNCHANGED <<listIdle, thr, srv, ctr, tea, gor>>

\* a receive taking the value sent last
ChanRecvNewest ==
    /\ chn # <<>>
    /\ chn.at = "recv"
    /\ chn' = IF chn.buf # <<>>
              THEN [chn EXCEPT !.got = Append(@, chn.buf[Len(chn.buf)]),
                               !.buf = SubSeq(@, 1, Len(@) - 1),
                               !.at = IF Len(chn.got) + 1 = Len(chn.msgs) THEN "done" ELSE "recv"]
              ELSE [chn EXCEPT !.at = "deadlock"]
    /\ UNCHANGED <<listIdle, thr, srv, ctr, tea, gor>>

\* fmt.Println(<-messages)
ChanRecv ==
    /\ chn # <<>>
    /\ chn.at = "recv"
    /\ chn' = IF chn.buf # <<>>
              THEN [chn EXCEPT !.got = Append(@, Head(chn.buf)),
                               !.buf = Tail(@),
                               !.at = IF Len(chn.got) + 1 = Len(chn.msgs) THEN "done" ELSE "recv"]
              ELSE [chn EXCEPT !.at = "deadlock"]
    /\ UNCHANGED <<listIdle, thr, srv, ctr, tea, gor>>

NextChan ==
    \/ \E c \in 0 .. MaxCap, msgs \in SeqsUpTo(MaxMsgs) : ChanMake(c, msgs)
    \/ ChanSend
    \/ ChanRecv

SpecChan == Init /\ [][NextChan]_vars

----------------------------------------------------------------------------
(* The goroutines example.  gor.at is where main is, gor.i the loop         *)
(* variable of the f main is running, gor.g that of the f running as a      *)
(* goroutine (-1 before the go statement, 4 once it has returned), gor.a    *)
(* the state of the anonymous goroutine, gor.out the lines printed.  When   *)
(* main returns the program exits and no goroutine runs any more.           *)

\* fmt.Println(from, ":", i)
Line(from, i) == <<from, i>>

GorStart ==
    /\ gor = <<>>
    /\ gor' = [at |-> "direct", i |-> 0, g |-> -1, a |-> "unborn", out |-> <<>>]
    /\ UNCHANGED <<listIdle, thr, srv, ctr, tea, chn>>

\* f("direct"): one turn of its loop
MainDirect ==
    /\ gor # <<>>
    /\ gor.at = "direct"
    /\ gor' = IF gor.i < 3
              THEN [gor EXCEPT !.out = Append(@, Line("direct", gor.i)), !.i = @ + 1]
              ELSE [gor EXCEPT !.at = "go f"]
    /\ UNCHANGED <<listIdle, thr, srv, ctr, tea, chn>>

\* go f("goroutine") placed before the call f("direct")
MainGoFEarly ==
    /\ gor # <<>>
    /\ \/ gor.at = "go f"
       \/ gor.at = "direct" /\ gor.g = -1
    /\ gor' = [gor EXCEPT !.g = IF @ = -1 THEN 0 ELSE @,
                          !.at = IF @ = "go f" THEN "go func" ELSE @]
    /\ UNCHANGED <<listIdle, thr, srv, ctr, tea, chn>>

\* go f("goroutine")
MainGoF ==
    /\ gor # <<>>
    /\ gor.at = "go f"
    /\ gor' = [gor EXCEPT !.g = 0, !.at = "go func"]
    /\ UNCHANGED <<listIdle, thr, srv, ctr, tea, chn>>

\* go func(msg string) {...}("going")
MainGoFunc ==
    /\ gor # <<>>
    /\ gor.at = "go func"
    /\ gor' = [gor EXCEPT !.a = "ready", !.at = "sleep"]
    /\ UNCHANGED <<listIdle, thr, srv, ctr, tea, chn>>

\* time.Sleep(time.Second): returns whatever the goroutines have done
MainSleep ==
    /\ gor # <<>>
    /\ gor.at = "sleep"
    /\ gor' = [gor EXCEPT !.at = "done"]
    /\ UNCHANGED <<listIdle, thr, srv, ctr, tea, chn>>

\* fmt.Println("done"), and main returns
MainDone ==
    /\ gor # <<>>
    /\ gor.at = "done"
    /\ gor' = [gor EXCEPT !.out = Append(@, <<"done">>), !.at = "exit"]
    /\ UNCHANGED <<listIdle, thr, srv, ctr, tea, chn>>

\* one turn of the loop of the f running as a goroutine
GorF ==
    /\ gor # <<>>
    /\ gor.at # "exit"
    /\ gor.g \in 0 .. 3
    /\ gor' = IF gor.g < 3
              THEN [gor EXCEPT !.out = Append(@, Line("goroutine", gor.g)), !.g = @ + 1]
              ELSE [gor EXCEPT !.g = 4]
    /\ UNCHANGED <<listIdle, thr, srv, ctr, tea, chn>>

\* the anonymous goroutine: fmt.Println(msg)
GorGoing ==
    /\ gor # <<>>
    /\ gor.at # "exit"
    /\ gor.a = "ready"
    /\ gor' = [gor EXCEPT !.out = Append(@, <<"going">>), !.a = "finished"]
    /\ UNCHANGED <<listIdle, thr, srv, ctr, tea, chn>>

NextGor ==
    \/ GorStart
    \/ MainDirect
    \/ MainGoF
    \/ MainGoFunc
    \/ MainSleep
    \/ MainDone
    \/ GorF
    \/ GorGoing

SpecGor == Init /\ [][NextGor]_vars

----------------------------------------------------------------------------
(* Natural numbers of any size: little-endian limbs, no leading zero limb *)

RECURSIVE Strip(_)
Strip(x) ==
    IF Len(x) > 0 /\ x[Len(x)] = 0 THEN Strip(SubSeq(x, 1, Len(x) - 1)) ELSE x

Pad(x, L) == [i \in 1 .. L |-> IF i <= Len(x) THEN x[i] ELSE 0]

NatAdd(x, y) ==
    LET L == (IF Len(x) > Len(y) THEN Len(x) ELSE Len(y)) + 1
    IN  Strip(AddLimbs(Pad(x, L), Pad(y, L), 1, 0))

\* the int x denotes the natural number N
IntIsNat(x, N) == ~IntNeg(x) /\ Strip(x) = N

----------------------------------------------------------------------------
(* Properties *)

\* C1: collecting All() of a List built by Push(v1), ..., Push(vn) from the
\* empty List gives exactly <<v1, ..., vn>>, in push order.
CollectGivesPushOrder ==
    (seq = "list" /\ mode = "collect" /\ pc = "returned") => all = pushed

CollectedTenThirteenTwentyThree ==
    /\ seq = "list" /\ mode = "collect" /\ pc = "returned"
    /\ pushed = <<10, 13, 23>>
    /\ all = <<10, 13, 23>>

\* C2: cancellation is exact, for All and for genFib: once the consumer has
\* returned false the produce call returns, with no further consumer
\* invocation, no further node visited and no further accumulator update.
CancellationExact ==
    [][ /\ (pc = "yielded" /\ ~ret) =>
              /\ pc' = "returned"
              /\ calls' = calls /\ seen' = seen /\ visited' = visited
              /\ e' = e /\ a' = a /\ b' = b
        /\ (calls' = calls + 1) => ret
        /\ ~ret' => pc' # "loop" ]_vars

\* a walk cancelled at its 2nd of 3 nodes, after a genFib run cancelled at
\* its 3rd value (1, 1, 2) left a = 2, b = 3
CancelledBothProducers ==
    /\ seq = "list" /\ pc = "returned" /\ ~ret
    /\ calls = 2 /\ Len(pushed) = 3 /\ e = 2
    /\ a = IntLit(2, intSize) /\ b = IntLit(3, intSize)

\* C3: tail is nil exactly when head is nil; otherwise tail is the one node
\* reachable from head whose next is nil.
TailIsLastNode ==
    /\ (tail = nil) <=> (head = nil)
    /\ head # nil =>
          {n \in Reachable(head) : heap[n].next = nil} = {tail}

TailBeyondHead == head # nil /\ tail # head /\ Len(pushed) = MaxPush

\* C4: the chain is acyclic: no node is reachable from itself, and from every
\* node the next links reach nil within as many steps as there are nodes.
ChainAcyclic ==
    \A n \in DOMAIN heap :
        /\ n \notin Reachable(heap[n].next)
        /\ Len(ChainFrom(n, Len(heap) + 1)) <= Len(heap)

ThreeNodeChain == Len(heap) = 3 /\ Cardinality(Reachable(head)) = 3

\* C5: a walk of an unmodified List of n nodes that is never told to stop
\* invokes the consumer once per node, in link order, and returns; told to
\* stop at call k it has handed over exactly the first k values in link order.
WalkInLinkOrder ==
    (seq = "list" /\ pc = "returned") =>
        /\ calls = Len(visited)
        /\ seen = [i \in 1 .. Len(visited) |-> heap[visited[i]].val]
        /\ IF ret
           THEN visited = LinkOrder
           ELSE /\ 1 <= calls /\ calls <= Len(LinkOrder)
                /\ visited = SubSeq(LinkOrder, 1, calls)

WalkedAllThree ==
    /\ seq = "list" /\ pc = "returned" /\ mode = "range" /\ ret
    /\ calls = 3 /\ visited = <<1, 2, 3>>

\* C6: the n-th value genFib hands to the consumer is the n-th Fibonacci
\* number, for every n >= 1: F(1) = F(2) = 1 and F(n) = F(n-1) + F(n-2), the
\* sum taken in the natural numbers.
NthValueIsFibonacci ==
    seq = "fib" =>
        \A n \in 1 .. Len(seen) :
            IF n <= 2
            THEN IntIsNat(seen[n], <<1>>)
            ELSE IntIsNat(seen[n], NatAdd(Strip(seen[n - 1]), Strip(seen[n - 2])))

\* C7: a consumer that returns true nine times and false the tenth time has
\* seen 1, 1, 2, 3, 5, 8, 13, 21, 34, 55.
FirstTenValues == <<1, 1, 2, 3, 5, 8, 13, 21, 34, 55>>

FirstTenFibonacci ==
    (seq = "fib" /\ pc = "returned" /\ calls = 10) =>
        seen = [i \in 1 .. 10 |-> IntLit(FirstTenValues[i], intSize)]

StoppedAtTenth == seq = "fib" /\ pc = "returned" /\ calls = 10 /\ ~ret

\* C8: genFib never stops on its own: it returns only after a consumer
\* invocation returned false, and while every invocation returns true the
\* consumer is invoked again.
GenFibStopsOnlyOnFalse ==
    /\ []((seq = "fib" /\ pc = "returned") => (calls >= 1 /\ ~ret))
    /\ \A n \in 0 .. MaxFibCalls - 1 :
          (seq = "fib" /\ pc \in {"loop", "yielded"} /\ calls = n /\ ret)
              ~> (calls = n + 1)

StillRunningAtTwenty == seq = "fib" /\ pc = "loop" /\ calls = 20 /\ ret

\* C9: Push keeps the values already in the List and their order: the walk
\* after Push(v) is the walk before it followed by v, and a non-empty List
\* always starts with the earliest-pushed value.
PushAppendsToWalk ==
    [][ /\ pushed' # pushed =>
              AllElements' = Append(AllElements, pushed'[Len(pushed')])
        /\ head' # nil => heap'[head'].val = pushed'[1] ]_vars

PushedThreeDistinct ==
    /\ Len(pushed) = 3 /\ pushed[1] # pushed[2] /\ pushed[2] # pushed[3]
    /\ AllElements = pushed

\* C10: a Push makes exactly one more node reachable from head, keeps every
\* existing node and its value, writes no field of an existing node but the
\* next link of the old tail; the length never decreases.
PushGrowsByOne ==
    [][ /\ pushed' # pushed =>
              /\ Cardinality(Reachable(head)') = Cardinality(Reachable(head)) + 1
              /\ Reachable(head) \subseteq Reachable(head)'
              /\ \A n \in DOMAIN heap :
                    /\ n \in DOMAIN heap'
                    /\ heap'[n].val = heap[n].val
                    /\ n # tail => heap'[n].next = heap[n].next
        /\ Len(LinkOrder') >= Len(LinkOrder) ]_vars

GrownToThree == Cardinality(Reachable(head)) = 3 /\ heap[2].next = 3

\* C12: driving a sequence obtained from All(), to exhaustion or to a
\* cancellation, leaves head, tail, every next link and every value as
\* they were.
WalkLeavesListUnchanged ==
    [][ pushed' = pushed => (head' = head /\ tail' = tail /\ heap' = heap) ]_vars

CancelledWalkOfTwo ==
    /\ seq = "list" /\ pc = "returned" /\ ~ret /\ calls = 1
    /\ Len(heap) = 2 /\ head = 1 /\ tail = 2

\* C13: on a List nothing was pushed to, the walk never invokes the consumer
\* and returns at once; collecting it gives the empty slice.
EmptyWalkCallsNothing ==
    (seq = "list" /\ pushed = <<>> /\ pc # "idle") =>
        /\ calls = 0 /\ seen = <<>>
        /\ pc \in {"loop", "returned"}
        /\ (pc = "loop" => e = nil)
        /\ (pc = "returned" /\ mode = "collect") => all = <<>>

CollectedEmptyList ==
    seq = "list" /\ pushed = <<>> /\ pc = "returned" /\ mode = "collect" /\ all = <<>>

\* C15: genFib hands its values over in increasing order: each value is
\* greater than or equal to the one before, strictly greater from the third
\* value on.
ValuesIncrease ==
    seq = "fib" =>
        \A n \in 1 .. Len(seen) - 1 :
            /\ ~IntLess(seen[n + 1], seen[n])
            /\ n + 1 >= 3 => IntLess(seen[n], seen[n + 1])

\* C16: AllElements() returns the values that collecting All() gives.
EagerEqualsLazy ==
    (seq = "list" /\ mode = "collect" /\ pc = "returned") => all = AllElements

CollectedThreeEndingInTen ==
    /\ seq = "list" /\ mode = "collect" /\ pc = "returned"
    /\ Len(all) = 3 /\ all[3] = 10 /\ AllElements[3] = 10

\* C17: Push(v) on an empty List makes head and tail the one new node holding
\* v with nil next; on a non-empty List it keeps head, sets the old tail's
\* next to a new node holding v with nil next and makes tail that node.
PushLinksAtTail ==
    [][ pushed' # pushed =>
          LET new == Len(heap) + 1
              v   == pushed'[Len(pushed')]
          IN  /\ DOMAIN heap' = DOMAIN heap \cup {new}
              /\ heap'[new] = [next |-> nil, val |-> v]
              /\ tail' = new
              /\ IF tail = nil
                 THEN head' = new /\ Len(heap') = 1
                 ELSE head' = head /\ heap'[tail].next = new ]_vars

PushedOntoNonEmpty ==
    Len(pushed) = 2 /\ head = 1 /\ tail = 2 /\ heap[1].next = 2 /\ heap[2].next = nil

\* s and t agree as far as both go
PrefixAgree(s, t) ==
    LET m == IF Len(s) < Len(t) THEN Len(s) ELSE Len(t)
    IN  SubSeq(s, 1, m) = SubSeq(t, 1, m)

\* C11: the walk is repeatable: two produce calls on a List not modified in
\* between hand the consumer the same values, each starting from head; two
\* walks that both run to the end hand over identical sequences.
WalkRepeatable ==
    (/\ seq = "list" /\ pc = "returned"
     /\ hist.prev.kind = "list" /\ hist.prev.n = Len(pushed)) =>
        /\ PrefixAgree(seen, hist.prev.seen)
        /\ (ret /\ hist.prev.ret) => seen = hist.prev.seen
        /\ seen # <<>> => seen[1] = heap[head].val
        /\ hist.prev.seen # <<>> => hist.prev.seen[1] = heap[head].val

WalkedTwiceTheSame ==
    /\ seq = "list" /\ pc = "returned" /\ hist.runs = 2
    /\ hist.prev.kind = "list" /\ hist.prev.n = Len(pushed)
    /\ Len(seen) = 3 /\ hist.prev.seen = seen

\* C14: every produce call of genFib is a run from the initial state: after a
\* run cancelled at any point, driving the sequence again hands over
\* 1, 1, 2, 3, ... from the start.
FirstFourValues == <<1, 1, 2, 3>>

FibRestartsFromOne ==
    (seq = "fib" /\ hist.prev.kind = "fib") =>
        /\ PrefixAgree(seen, hist.prev.seen)
        /\ PrefixAgree(seen, [i \in 1 .. 4 |-> IntLit(FirstFourValues[i], intSize)])

RerunBeyondFirstRun ==
    /\ seq = "fib" /\ pc = "returned" /\ hist.runs = 2
    /\ hist.prev.kind = "fib" /\ ~hist.prev.ret /\ Len(hist.prev.seen) = 2
    /\ calls = 4

\* C20: a sequence obtained from All() reads the List when it is driven:
\* obtained when the List held v1..vk and driven to the end after vk+1..vn
\* were pushed, it hands over all of v1..vn.
ReadsListWhenDriven ==
    (seq = "list" /\ pc = "returned" /\ ret) =>
        /\ hist.atAll <= Len(pushed)
        /\ seen = pushed

ObtainedAtOneDrivenAtThree ==
    /\ seq = "list" /\ pc = "returned" /\ ret /\ mode = "range"
    /\ hist.atAll = 1 /\ Len(pushed) = 3 /\ calls = 3

\* C18: the loop that stops at the first value n >= N terminates for every N
\* from 1 up to the largest Fibonacci number in int; the values processed
\* before the stop are the Fibonacci numbers below N, in order, and the
\* consumer answers false once, on the first value >= N.
FibonacciRun(s) ==
    \A n \in 1 .. Len(s) :
        IF n <= 2
        THEN IntIsNat(s[n], <<1>>)
        ELSE IntIsNat(s[n], NatAdd(Strip(s[n - 1]), Strip(s[n - 2])))

DemoLoopStops ==
    /\ []((seq = "fib" /\ pc \in {"yielded", "returned"}) =>
            /\ calls >= 1
            /\ FibonacciRun(seen)
            /\ \A n \in 1 .. calls - 1 : IntLess(seen[n], threshold)
            /\ ret <=> IntLess(seen[calls], threshold)
            /\ pc = "returned" => ~ret)
    /\ (seq = "fib" /\ pc = "loop") ~> (pc = "returned")

StoppedAtThirteen ==
    /\ seq = "fib" /\ pc = "returned" /\ ~ret
    /\ threshold = IntLit(10, intSize)
    /\ calls = 7 /\ seen[7] = IntLit(13, intSize)

\* C19: values the consumer pushes while the List is walked are visited by
\* the same walk, in push order behind the nodes that were there before; a
\* consumer that pushes on every call and always answers true keeps the
\* walk of a non-empty List from ever returning.
PushedDuringWalkAreVisited ==
    (seq = "list" /\ mode = "pushing" /\ pc \in {"loop", "yielded", "returned"}) =>
        /\ visited = SubSeq(LinkOrder, 1, calls)
        /\ seen = SubSeq(pushed, 1, calls)
        /\ head # nil => (pc # "returned" /\ (pc = "loop" => e # nil))

VisitedNodesPushedDuringWalk ==
    /\ seq = "list" /\ mode = "pushing" /\ pc = "loop"
    /\ calls = 3 /\ Len(pushed) = 4 /\ visited = <<1, 2, 3>> /\ e = 4

\* C21: head is written by the first Push only: once it is not nil it is the
\* same node, the one the first Push made, in every later state.
HeadStays ==
    [][ head # nil => (head' = head /\ heap'[head'].val = pushed'[1]) ]_vars

HeadFirstOfThree ==
    /\ head = 1 /\ tail = 3 /\ Len(pushed) = 3
    /\ seq = "list" /\ pc = "returned" /\ calls >= 1

\* C22: Push is not safe for concurrent use.  Two Push calls that do not
\* overlap leave both values reachable from head and tail at the last node;
\* two that interleave their reads and writes can lose an append or leave
\* tail away from the last node.
BothDone == thr # <<>> /\ \A i \in Racers : thr.t[i].at = "done"

AppendLost == \E i \in Racers : thr.t[i].new \notin Reachable(head)

TailAstray ==
    \/ tail = nil
    \/ heap[tail].next # nil
    \/ tail \notin Reachable(head)

OnlyOverlappingPushesFail ==
    (BothDone /\ ~thr.overlap) =>
        /\ ~AppendLost
        /\ ~TailAstray
        /\ AllElements = pushed

RaceLosesAppend == BothDone /\ thr.overlap /\ AppendLost

\* C23: transition takes StateIdle to StateConnected, StateConnected and
\* StateRetrying to StateIdle, StateError to StateError; once in StateError
\* the state stays StateError.
TransitionTable ==
    srv # <<>> =>
        \A i \in 1 .. Len(srv.trace) - 1 :
            /\ srv.trace[i] = StateIdle => srv.trace[i + 1] = StateConnected
            /\ srv.trace[i] = StateConnected => srv.trace[i + 1] = StateIdle
            /\ srv.trace[i] = StateRetrying => srv.trace[i + 1] = StateIdle
            /\ srv.trace[i] = StateError =>
                  \A j \in i .. Len(srv.trace) : srv.trace[j] = StateError

StayedInError ==
    srv # <<>> /\ srv.trace[1] = StateError /\ Len(srv.trace) = 5 /\ srv.s = StateError

\* C24: from StateIdle the state alternates StateIdle, StateConnected,
\* StateIdle, ...; StateError and StateRetrying are never reached and
\* transition never panics.
IdleAlternates ==
    (srv # <<>> /\ srv.trace[1] = StateIdle) =>
        /\ ~srv.panicked
        /\ \A i \in 1 .. Len(srv.trace) :
              srv.trace[i] = IF i % 2 = 1 THEN StateIdle ELSE StateConnected

TwoStepsFromIdle ==
    srv # <<>> /\ srv.trace = <<StateIdle, StateConnected, StateIdle>>

\* C25: transition panics exactly when its argument is none of the four
\* states 0..3; for each of the four it returns one of the four.
Defined == {StateIdle, StateConnected, StateError, StateRetrying}

PanicsOnUnknownOnly ==
    [][ (srv # <<>> /\ srv' # srv) =>
            /\ srv'.panicked <=> srv.s \notin 0 .. 3
            /\ ~srv'.panicked => (srv.s \in Defined /\ srv'.s \in Defined) ]_vars

PanickedOnFour == srv # <<>> /\ srv.panicked /\ srv.s = 4

\* C26: the k-th call of a function returned by intSeq returns k, whatever
\* calls of the functions obtained from other intSeq calls come in between.
EachClosureCountsAlone ==
    \A c \in 1 .. Len(ctr) :
        \A k \in 1 .. Len(ctr[c].out) : ctr[c].out[k] = IntLit(k, intSize)

ThreeThenAFreshOne ==
    /\ Len(ctr) = 2
    /\ ctr[1].out = <<IntLit(1, intSize), IntLit(2, intSize), IntLit(3, intSize)>>
    /\ ctr[2].out = <<IntLit(1, intSize)>>

\* C27: makeTea returns nil for 0, 1 and 3, ErrOutOfTea for 2, and for 4 an
\* error wrapping ErrPower that errors.Is finds to be ErrPower and not
\* ErrOutOfTea; the loop over range 5 prints tea ready three times, the
\* out-of-tea line once, the power line once, and never the unknown-error
\* line.
Count(line) == Cardinality({k \in 1 .. Len(tea.out) : tea.out[k] = line})

TeaOutcomes ==
    tea # <<>> =>
        /\ \A k \in 1 .. Len(tea.errs) :
              /\ k - 1 \in {0, 1, 3} => tea.errs[k] = <<>>
              /\ k - 1 = 2 => tea.errs[k] = ErrOutOfTea
              /\ k - 1 = 4 => /\ tea.errs[k] # <<>>
                              /\ tea.errs[k] # ErrPower
                              /\ Unwrap(tea.errs[k]) = ErrPower
                              /\ ErrorsIs(tea.errs[k], ErrPower)
                              /\ ~ErrorsIs(tea.errs[k], ErrOutOfTea)
        /\ (tea.n = 5 /\ tea.at = "done") =>
              /\ Count("tea ready") = 3
              /\ Count("buy new tea") = 1
              /\ Count("dark") = 1
              /\ Count("unknown error") = 0

FiveCupsDone ==
    /\ tea # <<>>
    /\ tea.n = 5
    /\ tea.at = "done"
    /\ tea.out = <<"tea ready", "tea ready", "buy new tea", "tea ready", "dark">>

\* C28: with capacity 2, main's sends of "buffered" and "channel" both
\* complete with no receiver (no deadlock), and the two receives that follow
\* return "buffered", then "channel".
TwoSendsThenTwoReceives ==
    (chn # <<>> /\ chn.cap = 2 /\ chn.msgs = <<"buffered", "channel">>) =>
        /\ chn.at # "deadlock"
        /\ chn.k = 2 /\ chn.got = <<>> => chn.buf = <<"buffered", "channel">>
        /\ Len(chn.got) >= 1 => chn.got[1] = "buffered"
        /\ Len(chn.got) >= 2 => chn.got[2] = "channel"
        /\ chn.at = "done" => chn.got = <<"buffered", "channel">>

ReceivedBufferedChannel ==
    /\ chn # <<>>
    /\ chn.cap = 2
    /\ chn.msgs = <<"buffered", "channel">>
    /\ chn.at = "done"
    /\ chn.got = <<"buffered", "channel">>

\* C29: the three "direct" lines are printed in order before any line of the
\* two goroutines; the three "goroutine" lines are printed in order; while
\* both goroutines have a line to print either may print next, and main
\* sleeps and prints "done" without waiting for them.
Lines(from) == SelectSeq(gor.out, LAMBDA l : l[1] = from)

Ordered(from) == \A k \in 1 .. Len(Lines(from)) : Lines(from)[k] = Line(from, k - 1)

DirectFirstGoroutinesFree ==
    gor # <<>> =>
        /\ Ordered("direct")
        /\ Ordered("goroutine")
        /\ \A k \in 1 .. Len(gor.out) :
              gor.out[k][1] # "direct" =>
                  /\ Len(Lines("direct")) = 3
                  /\ \A j \in 1 .. 3 : gor.out[j][1] = "direct"
        /\ (gor.at # "exit" /\ gor.g \in 0 .. 2 /\ gor.a = "ready") =>
              ENABLED GorF /\ ENABLED GorGoing
        /\ gor.at = "sleep" => ENABLED MainSleep
        /\ gor.at = "done" => ENABLED MainDone

GoingBetweenAndDoneEarly ==
    /\ gor # <<>>
    /\ gor.at = "exit"
    /\ gor.out = <<Line("direct", 0), Line("direct", 1), Line("direct", 2),
                   Line("goroutine", 0), <<"going">>, Line("goroutine", 1), <<"done">>>>

====
